---- MODULE Spec2Model ----
(***************************************************************************)
(* Model of the machine-vision edge gateway.                               *)
(*                                                                         *)
(*  - CameraDevice (src/src/cameras/camera_device_gpt.py): the run loop,   *)
(*    the one-shot command flags, the bounded recording queue and the      *)
(*    recording worker threads.  Specification: Spec.                      *)
(*  - CameraService (src/src/camera_service.py): the supervisory state     *)
(*    machine, the MQTT client callbacks and the heartbeat check.          *)
(*    Specification: SupSpec.                                              *)
(*  - CameraService._on_message: the messages of the bus.                  *)
(*    Specification: BusSpec.                                              *)
(*  - CameraDevice.mjpeg_handler: the HTTP clients of the stream.          *)
(*    Specification: StreamSpec.                                           *)
(*  - CameraDevice.run cancelled: the cleanup of the finally block.        *)
(*    Specification: ShutdownSpec.                                         *)
(*  - publish_vision_status / from_dict: the status snapshot as JSON.      *)
(*    Specification: CodecSpec.                                            *)
(*  - CameraDevice.run with its run loop scheduled fairly.                 *)
(*    Specification: LiveSpec.                                             *)
(***************************************************************************)
EXTENDS Integers, Sequences, FiniteSets, TLC

(***************************************************************************)
(* Bounds of the model (not program constants).                            *)
(***************************************************************************)
\* frames the capture handle delivers in a run of the "commands" scenario;
\* frame k is the k-th successful read
MaxFrames == 6
\* frames a run of the "backlog" scenario reads beyond the ones that fill the
\* recording queue
MaxOverflow == 2
\* recording worker threads created in one run
MaxWorkers == 2
\* command flags set from outside in a run of the "commands" scenario
MaxIntents == 4
\* writer.write() calls that raise in one run
MaxWriteErrors == 1

\* frames the capture handle delivers in a run of the "viewers" scenario
MaxViewerFrames == 2
\* frames the capture handle delivers in a run of the "shutdown" scenario
MaxShutdownFrames == 4
\* cameras of a status snapshot
MaxCameras == 2
\* calls of camera_state_callback in a run
MaxCallbacks == 2
\* HTTP clients that request the stream in one run
MaxClients == 2
\* frames written to HTTP clients in one run
MaxSends == 2
\* messages the bus delivers in one run
MaxMessages == 2

\* publish intervals the clock runs through
MaxClockTicks == 4
\* largest heartbeat counter value the controller sends
MaxHeartbeat == 1

(***************************************************************************)
(* Program constants.                                                      *)
(***************************************************************************)
REC_QUEUE_MAXSIZE == 12

\* DeviceStates
INACTIVE == 0
RESETTING == 50
IDLE == 100
RUNNING == 500
ABORTING == 911

\* the status publish interval of run_state_machine, in ms
PUBLISH_INTERVAL_MS == 1000

\* the heartbeat timeout, in ms
HEARTBEAT_TIMEOUT_MS == 2000

(***************************************************************************)
(* A run is explored under one of four budgets.   "commands": any command  *)
(* flags, few frames.  "backlog": enough frames to fill the recording      *)
(* queue and overflow it, with the commands that lead to a recording.      *)
(* "viewers": HTTP clients on the stream, fewer frames, and no command     *)
(* that ends a recording (stop_record, disconnect).  "shutdown": the run   *)
(* loop is cancelled, with the commands that lead through a recording.     *)
(***************************************************************************)
Scenarios == {"commands", "backlog", "viewers", "shutdown"}

BacklogIntents == {"connect", "start_record", "stop_record"}

ViewerIntents == {"connect", "start_stream", "stop_stream", "start_record"}

FrameBudget(sc) ==
    CASE sc = "backlog" -> REC_QUEUE_MAXSIZE + MaxOverflow
      [] sc = "viewers" -> MaxViewerFrames
      [] sc = "shutdown" -> MaxShutdownFrames
      [] OTHER -> MaxFrames

IntentBudget(sc) ==
    CASE sc \in {"backlog", "shutdown"} -> Cardinality(BacklogIntents)
      [] sc = "viewers" -> Cardinality(ViewerIntents)
      [] OTHER -> MaxIntents

VARIABLES
    scenario,                  \* the budget of this run
    \* ---- CameraDevice fields
    is_connected,              \* self.is_connected
    cap,                       \* self.cap is not None
    recording_state,           \* "stopped" | "recording" | "saving"
    streaming_state,           \* "stopped" | "streaming"
    current_frame,             \* frame id in the shared buffer, 0 = None
    connect_command,
    disconnect_command,
    start_recording_command,
    stop_recording_command,
    start_streaming_command,
    stop_streaming_command,
    rec_queue,                 \* self.rec_queue: sequence of frame ids
    rec_thread,                \* self._rec_thread: worker id, 0 = None
    rec_running,               \* self._rec_running (threading.Event)
    stats,                     \* self.stats
    \* ---- threads and files of the camera
    cam_pc,                    \* run loop: "loop" | "join" (inside Thread.join)
                               \* | "backoff" (asleep after a failed read)
    workers,                   \* worker id -> [pc, frame, tmp]
    files,                     \* worker id -> frames written by its VideoWriter
    \* ---- bookkeeping of the environment and of the sessions
    nframes,                   \* frames read so far (next frame id - 1)
    nintents,                  \* command flags set so far
    nwerr,                     \* writer.write() exceptions so far
    accepted,                  \* frame ids accepted into rec_queue, in order
    dropped,                   \* frame ids refused by rec_queue (queue.Full)
    session,                   \* accounting of the latest recording session
    pass_began_saving,         \* the latest complete pass of the run loop
                               \* began with recording_state = "saving"
    \* ---- CameraService fields
    stepNum,                   \* self.device_data.Is.stepNum
    mqtt_is_connected,
    is_connecting_to_mqtt,
    heartbeat_detected,
    last_heartbate_update_ms,
    hb_i,                      \* self.vis_sts.iExtService.i.heartbeatVal
    hb_o,                      \* self.vis_sts.iExtService.o.heartbeatVal
    i_stepNum,                 \* self.vis_sts.iExtService.i.stepNum
    last_publish_time_ms,      \* local of run_state_machine
    timeNowMs,                 \* local of run_state_machine
    sup_pc,                    \* position inside one pass of run_state_machine
    \* ---- the bus and the clock
    now,                       \* time.time() in ms
    broker_up,                 \* the broker can be reached
    link,                      \* "none" | "tcp" (CONNECT sent) | "up" (CONNACK seen)
    published,                 \* the latest status message handed to the client
    \* ---- bookkeeping of the supervisor
    ever_reachable,            \* the broker has been reachable at some time
    step_from,                 \* stepNum before the latest set_new_step_num
    step_by,                   \* the statement that made the latest set_new_step_num
    \* ---- messages delivered to CameraService._on_message
    msgs,                      \* the messages _on_message was called with, in order
    \* ---- HTTP clients of the camera's /stream endpoint
    clients,                   \* client id -> [pc, sent, stale] of its mjpeg_handler call
    \* ---- the status snapshot and its JSON form
    cameraStates,              \* self.vis_sts.cameraStates
    wire,                      \* the payload publish_vision_status hands over
    parsed,                    \* what from_dict makes of a received payload
    \* ---- bookkeeping of the snapshot
    reported,                  \* camera id -> the state of its latest callback
    ncallbacks                 \* calls of camera_state_callback so far

camVars == <<scenario, is_connected, cap, recording_state, streaming_state, current_frame,
             connect_command, disconnect_command, start_recording_command,
             stop_recording_command, start_streaming_command,
             stop_streaming_command, rec_queue, rec_thread, rec_running, stats,
             cam_pc, workers, files, nframes, nintents, nwerr, accepted,
             dropped, session, pass_began_saving>>

supVars == <<stepNum, mqtt_is_connected, is_connecting_to_mqtt,
             heartbeat_detected, last_heartbate_update_ms, hb_i, hb_o, i_stepNum,
             last_publish_time_ms, timeNowMs, sup_pc, now, broker_up, link,
             published, ever_reachable, step_from, step_by>>

busVars == <<msgs>>

httpVars == <<clients>>

codecVars == <<cameraStates, wire, parsed, reported, ncallbacks>>

vars == <<camVars, supVars, busVars, httpVars, codecVars>>

WorkerIds == 1..MaxWorkers

\* pc of a worker thread: "none" (not created), "open" (opening the writer),
\* "loop" (at the while condition), "write" (holding a frame taken from the
\* queue), "count" (between the load and the store of
\* stats["record_written"] += 1), "release" (left the while loop, before
\* writer.release()), "dead" (returned)
\* writer: "none" (no VideoWriter yet), "open", "failed" (isOpened() was
\* False), "released"
NoWorker == [pc |-> "none", frame |-> 0, tmp |-> 0, writer |-> "none"]

\* session: the worker of the latest recording session, the frames the run
\* loop offered to the queue during it and how many of them were refused
NoSession == [worker |-> 0, offered |-> 0, refused |-> 0]

\* threading.Thread.is_alive()
IsAlive(w) == workers[w].pc \in {"open", "loop", "write", "count", "release"}

LiveWorkers == {w \in WorkerIds : IsAlive(w)}

NumWorkers == Cardinality({w \in WorkerIds : workers[w].pc # "none"})

CamInit ==
    /\ scenario \in Scenarios
    /\ is_connected = FALSE
    /\ cap = FALSE
    /\ recording_state = "stopped"
    /\ streaming_state = "stopped"
    /\ current_frame = 0
    /\ connect_command = FALSE
    /\ disconnect_command = FALSE
    /\ start_recording_command = FALSE
    /\ stop_recording_command = FALSE
    /\ start_streaming_command = FALSE
    /\ stop_streaming_command = FALSE
    /\ rec_queue = <<>>
    /\ rec_thread = 0
    /\ rec_running = FALSE
    /\ stats = [captured |-> 0, stream_sent |-> 0, record_written |-> 0,
                dropped_for_rec |-> 0]
    /\ cam_pc = "loop"
    /\ workers = [w \in WorkerIds |-> NoWorker]
    /\ files = [w \in WorkerIds |-> <<>>]
    /\ nframes = 0
    /\ nintents = 0
    /\ nwerr = 0
    /\ accepted = <<>>
    /\ dropped = {}
    /\ session = NoSession
    /\ pass_began_saving = FALSE

(***************************************************************************)
(* CameraDevice.run: one pass of the while loop.                           *)
(***************************************************************************)

\* put_nowait that lets one frame more than the capacity in
PutNowaitFullOffByOne(q) == Len(q) > REC_QUEUE_MAXSIZE

\* queue.Queue.put_nowait raises queue.Full
PutNowaitFull(q) == Len(q) >= REC_QUEUE_MAXSIZE

\* an open_capture that keeps the handle of a device it could not open
OpenCaptureKeepsHandle(ok) == [is_connected |-> ok, cap |-> TRUE]

\* open_capture(): is_connected and cap after the attempt
OpenCapture(ok) == [is_connected |-> ok, cap |-> ok]

\* a close_capture that clears is_connected and keeps the handle
CloseCaptureKeepsHandle == [is_connected |-> FALSE, cap |-> TRUE]

\* close_capture(): is_connected and cap afterwards
CloseCapture == [is_connected |-> FALSE, cap |-> FALSE]

\* a buffer that keeps the first frame stored in it
StoredFrameKeepsFirst(frame, old) == IF old = 0 THEN frame ELSE old

\* lines 345-346: the buffer holds a copy of the frame just read
StoredFrame(frame, old) == frame

\* recording_state after the disconnect command has closed the capture
RecAfterDisconnect(rs) == IF rs = "recording" THEN "saving" ELSE rs

\* a put that waits for a free slot when the queue is full
PutWaits(q) == Len(q) >= REC_QUEUE_MAXSIZE

\* put_nowait never waits: the run loop goes on in the same pass
PutNowaitWaits(q) == FALSE

\* a branch that offers the frame whenever the state is "recording"
EnqueuesFrameAlways(rs, stop) == rs = "recording"

\* the pass offers its frame to the recording queue: the state is "recording"
\* and no stop command is pending, lines 372-380
EnqueuesFrame(rs, stop) == rs = "recording" /\ ~stop

\* recording_state after a failed read or a read exception closed the capture
RecAfterReadFailure(rs) == rs

\* start_record_worker(): "busy" (returns None: a live thread is registered),
\* "nocap" (returns False) or "started" (returns True)
StartRecordWorker(thread, capOpen) ==
    IF thread # 0 /\ IsAlive(thread) THEN "busy"
    ELSE IF ~capOpen THEN "nocap"
    ELSE "started"

\* a connect part that looks at the disconnect flag before the connect flag
ConnectPartDisconnectFirst(openOk) ==
    LET doDisc == disconnect_command /\ is_connected
        c1 == IF doDisc THEN CloseCapture
              ELSE [is_connected |-> is_connected, cap |-> cap]
        doConnect == connect_command /\ ~c1.is_connected
        c2 == IF doConnect THEN OpenCapture(openOk) ELSE c1
    IN  [is_connected |-> c2.is_connected,
         cap |-> c2.cap,
         connect_command |-> IF doConnect THEN FALSE ELSE connect_command,
         disconnect_command |-> IF doDisc THEN FALSE ELSE disconnect_command,
         recording_state |-> IF doDisc THEN RecAfterDisconnect(recording_state)
                             ELSE recording_state]

\* a connect part that opens the capture and leaves the connect flag set
ConnectPartKeepsFlag(openOk) ==
    LET doConnect == connect_command /\ ~is_connected
        c1 == IF doConnect THEN OpenCapture(openOk)
              ELSE [is_connected |-> is_connected, cap |-> cap]
        doDisc == disconnect_command /\ c1.is_connected
        c2 == IF doDisc THEN CloseCapture ELSE c1
    IN  [is_connected |-> c2.is_connected,
         cap |-> c2.cap,
         connect_command |-> connect_command,
         disconnect_command |-> IF doDisc THEN FALSE ELSE disconnect_command,
         recording_state |-> IF doDisc THEN RecAfterDisconnect(recording_state)
                             ELSE recording_state]

\* the connect / disconnect part of a pass: lines 315-324
ConnectPart(openOk) ==
    LET doConnect == connect_command /\ ~is_connected
        c1 == IF doConnect THEN OpenCapture(openOk)
              ELSE [is_connected |-> is_connected, cap |-> cap]
        doDisc == disconnect_command /\ c1.is_connected
        c2 == IF doDisc THEN CloseCapture ELSE c1
    IN  [is_connected |-> c2.is_connected,
         cap |-> c2.cap,
         connect_command |-> IF doConnect THEN FALSE ELSE connect_command,
         disconnect_command |-> IF doDisc THEN FALSE ELSE disconnect_command,
         recording_state |-> IF doDisc THEN RecAfterDisconnect(recording_state)
                             ELSE recording_state]

\* a start command that toggles the streaming state
StreamPartToggle ==
    LET s1 == IF start_streaming_command
              THEN (IF streaming_state = "streaming" THEN "stopped" ELSE "streaming")
              ELSE streaming_state
    IN  IF stop_streaming_command /\ s1 = "streaming" THEN "stopped" ELSE s1

\* streaming_state after the start/stop streaming commands: lines 349-359
StreamPart ==
    LET s1 == IF start_streaming_command /\ streaming_state # "streaming"
              THEN "streaming" ELSE streaming_state
    IN  IF stop_streaming_command /\ s1 = "streaming" THEN "stopped" ELSE s1

ClientIds == 1..MaxClients

\* a while condition that does not look at the streaming state
LoopContinuesWhileConnected == is_connected

\* the while condition of mjpeg_handler, line 246
LoopContinues == streaming_state = "streaming" /\ is_connected

\* bookkeeping of a pass: the clients inside their loop at a moment at which
\* the pass makes the while condition false
NoteLeft ==
    clients' = [k \in ClientIds |->
                  IF /\ clients[k].pc \in {"open", "sending"}
                     /\ streaming_state = "streaming" /\ is_connected
                     /\ ~(streaming_state' = "streaming" /\ is_connected')
                  THEN [clients[k] EXCEPT !.stale = TRUE]
                  ELSE clients[k]]

\* a pass that reads no frame: not connected after the connect part
TickIdle(openOk) ==
    LET c == ConnectPart(openOk) IN
    /\ cam_pc = "loop"
    /\ ~(c.is_connected /\ c.cap)
    /\ is_connected' = c.is_connected
    /\ cap' = c.cap
    /\ connect_command' = c.connect_command
    /\ disconnect_command' = c.disconnect_command
    /\ recording_state' = c.recording_state
    /\ UNCHANGED <<scenario, streaming_state, current_frame, start_recording_command,
                   stop_recording_command, start_streaming_command,
                   stop_streaming_command, rec_queue, rec_thread, rec_running,
                   stats, cam_pc, workers, files, nframes, nintents, nwerr,
                   accepted, dropped, session>>
    /\ pass_began_saving' = (recording_state = "saving")
    /\ NoteLeft
    /\ UNCHANGED <<supVars, busVars, codecVars>>

\* a pass whose cap.read() raises or returns ret = False: lines 328-341, up
\* to the sleep of line 333 or 340
TickReadFailure(openOk) ==
    LET c == ConnectPart(openOk) IN
    /\ cam_pc = "loop"
    /\ c.is_connected /\ c.cap
    /\ is_connected' = CloseCapture.is_connected
    /\ cap' = CloseCapture.cap
    /\ connect_command' = c.connect_command
    /\ disconnect_command' = c.disconnect_command
    /\ recording_state' = RecAfterReadFailure(c.recording_state)
    /\ cam_pc' = "backoff"
    /\ UNCHANGED <<scenario, streaming_state, current_frame, start_recording_command,
                   stop_recording_command, start_streaming_command,
                   stop_streaming_command, rec_queue, rec_thread, rec_running,
                   stats, workers, files, nframes, nintents, nwerr,
                   accepted, dropped, session>>
    /\ pass_began_saving' = (recording_state = "saving")
    /\ NoteLeft
    /\ UNCHANGED <<supVars, busVars, codecVars>>

\* the sleep of line 333 (0.1 s) or 340 (0.5 s) is over.  It outlasts the
\* sleeps of mjpeg_handler (0.01 s and 1 / STREAM_FPS = 0.05 s): a client
\* loop that is not held up in a write has come back to its while
\* condition before the run loop goes on.
BackoffEnds ==
    /\ cam_pc = "backoff"
    /\ \A k \in ClientIds : clients[k].pc # "open"
    /\ cam_pc' = "loop"
    /\ UNCHANGED <<scenario, is_connected, cap, recording_state, streaming_state,
                   current_frame, connect_command, disconnect_command,
                   start_recording_command, stop_recording_command,
                   start_streaming_command, stop_streaming_command, rec_queue,
                   rec_thread, rec_running, stats, workers, files, nframes,
                   nintents, nwerr, accepted, dropped, session,
                   pass_began_saving>>
    /\ UNCHANGED <<supVars, busVars, httpVars, codecVars>>

\* the part of a pass with a frame that every recording branch shares
FramePart(c, f) ==
    /\ is_connected' = c.is_connected
    /\ cap' = c.cap
    /\ connect_command' = c.connect_command
    /\ disconnect_command' = c.disconnect_command
    /\ nframes' = f
    /\ current_frame' = StoredFrame(f, current_frame)
    /\ streaming_state' = StreamPart
    /\ start_streaming_command' = FALSE
    /\ stop_streaming_command' = FALSE
    /\ UNCHANGED <<scenario, files, nintents, nwerr>>

\* recording_state in ("stopped", "disconnected"): lines 362-371
TickStopped(openOk) ==
    LET c == ConnectPart(openOk)
        f == nframes + 1
        started == StartRecordWorker(rec_thread, c.cap)
        w == NumWorkers + 1
    IN
    /\ cam_pc = "loop"
    /\ c.is_connected /\ c.cap
    /\ nframes < FrameBudget(scenario)
    /\ c.recording_state = "stopped"
    /\ FramePart(c, f)
    /\ stats' = [stats EXCEPT !.captured = @ + 1]
    /\ start_recording_command' = FALSE
    /\ IF start_recording_command /\ started = "started"
       THEN /\ w \in WorkerIds
            /\ rec_running' = TRUE
            /\ rec_thread' = w
            /\ workers' = [workers EXCEPT ![w].pc = "open"]
            /\ recording_state' = "recording"
            /\ session' = [worker |-> w, offered |-> 0, refused |-> 0]
       ELSE /\ recording_state' = c.recording_state
            /\ UNCHANGED <<rec_running, rec_thread, workers, session>>
    /\ UNCHANGED <<stop_recording_command, rec_queue, cam_pc, accepted, dropped>>
    /\ pass_began_saving' = FALSE
    /\ NoteLeft
    /\ UNCHANGED <<supVars, busVars, codecVars>>

\* recording_state == "recording": lines 372-382
TickRecording(openOk) ==
    LET c == ConnectPart(openOk)
        f == nframes + 1
    IN
    /\ cam_pc = "loop"
    /\ c.is_connected /\ c.cap
    /\ nframes < FrameBudget(scenario)
    /\ c.recording_state = "recording"
    /\ FramePart(c, f)
    /\ IF stop_recording_command
       THEN /\ stop_recording_command' = FALSE
            /\ recording_state' = "saving"
       ELSE /\ recording_state' = "recording"
            /\ UNCHANGED stop_recording_command
    /\ IF ~EnqueuesFrame(c.recording_state, stop_recording_command)
       THEN /\ stats' = [stats EXCEPT !.captured = @ + 1]
            /\ cam_pc' = "loop"
            /\ UNCHANGED <<rec_queue, accepted, dropped, session>>
       ELSE /\ cam_pc' = IF PutNowaitWaits(rec_queue) THEN "put" ELSE "loop"
            /\ session' = [session EXCEPT
                             !.offered = @ + 1,
                             !.refused = IF PutNowaitFull(rec_queue) THEN @ + 1 ELSE @]
            /\ IF PutNowaitFull(rec_queue)
               THEN /\ stats' = [stats EXCEPT !.captured = @ + 1,
                                              !.dropped_for_rec = @ + 1]
                    /\ dropped' = dropped \cup {f}
                    /\ UNCHANGED <<rec_queue, accepted>>
               ELSE /\ stats' = [stats EXCEPT !.captured = @ + 1]
                    /\ rec_queue' = Append(rec_queue, f)
                    /\ accepted' = Append(accepted, f)
                    /\ UNCHANGED dropped
    /\ UNCHANGED <<start_recording_command, rec_thread, rec_running, workers>>
    /\ pass_began_saving' = FALSE
    /\ NoteLeft
    /\ UNCHANGED <<supVars, busVars, codecVars>>

\* recording_state == "saving": lines 384-388 up to Thread.join(); with no
\* thread registered stop_record_worker returns at once
TickSaving(openOk) ==
    LET c == ConnectPart(openOk)
        f == nframes + 1
    IN
    /\ cam_pc = "loop"
    /\ c.is_connected /\ c.cap
    /\ nframes < FrameBudget(scenario)
    /\ c.recording_state = "saving"
    /\ FramePart(c, f)
    /\ stats' = [stats EXCEPT !.captured = @ + 1]
    /\ rec_running' = FALSE
    /\ IF rec_thread # 0
       THEN /\ cam_pc' = "join"
            /\ recording_state' = "saving"
       ELSE /\ cam_pc' = "loop"
            /\ recording_state' = "stopped"
    /\ UNCHANGED <<start_recording_command, stop_recording_command, rec_queue,
                   rec_thread, workers, accepted, dropped, session>>
    /\ pass_began_saving' = FALSE
    /\ NoteLeft
    /\ UNCHANGED <<supVars, busVars, codecVars>>

\* Thread.join(timeout) returns: the worker has exited, or the timeout ran out
\* with the worker still alive (only a warning is printed); then lines
\* 208-210 and 387
JoinReturn ==
    /\ cam_pc = "join"
    /\ rec_thread' = 0
    /\ recording_state' = "stopped"
    /\ cam_pc' = "loop"
    /\ UNCHANGED <<scenario, is_connected, cap, streaming_state, current_frame,
                   connect_command, disconnect_command, start_recording_command,
                   stop_recording_command, start_streaming_command,
                   stop_streaming_command, rec_queue, rec_running, stats,
                   workers, files, nframes, nintents, nwerr, accepted, dropped,
                   session>>
    /\ pass_began_saving' = FALSE
    /\ UNCHANGED <<supVars, busVars, httpVars, codecVars>>

\* the run task is cancelled at an await (line 391, or the sleep after a
\* failed read) and the finally block runs: stop_record_worker() when the
\* state is "recording" (up to Thread.join() with a thread registered), then
\* close_capture()
Cancel ==
    /\ cam_pc \in {"loop", "backoff"}
    /\ IF recording_state = "recording"
       THEN /\ rec_running' = FALSE
            /\ IF rec_thread # 0
               THEN /\ cam_pc' = "final_join"
                    /\ UNCHANGED <<is_connected, cap>>
               ELSE /\ cam_pc' = "exited"
                    /\ is_connected' = CloseCapture.is_connected
                    /\ cap' = CloseCapture.cap
       ELSE /\ cam_pc' = "exited"
            /\ is_connected' = CloseCapture.is_connected
            /\ cap' = CloseCapture.cap
            /\ UNCHANGED rec_running
    /\ UNCHANGED <<scenario, recording_state, streaming_state, current_frame,
                   connect_command, disconnect_command, start_recording_command,
                   stop_recording_command, start_streaming_command,
                   stop_streaming_command, rec_queue, rec_thread, stats,
                   workers, files, nframes, nintents, nwerr, accepted, dropped,
                   session>>
    /\ UNCHANGED pass_began_saving
    /\ UNCHANGED <<supVars, busVars, httpVars, codecVars>>

\* Thread.join(timeout) of the finally block returns (the worker has exited
\* or the timeout ran out), then line 210 and close_capture()
FinalJoinReturn ==
    /\ cam_pc = "final_join"
    /\ rec_thread' = 0
    /\ cam_pc' = "exited"
    /\ is_connected' = CloseCapture.is_connected
    /\ cap' = CloseCapture.cap
    /\ UNCHANGED <<scenario, recording_state, streaming_state, current_frame,
                   connect_command, disconnect_command, start_recording_command,
                   stop_recording_command, start_streaming_command,
                   stop_streaming_command, rec_queue, rec_running, stats,
                   workers, files, nframes, nintents, nwerr, accepted, dropped,
                   session>>
    /\ UNCHANGED pass_began_saving
    /\ UNCHANGED <<supVars, busVars, httpVars, codecVars>>

(***************************************************************************)
(* CameraDevice._rec_worker: the recording thread w.                       *)
(***************************************************************************)

\* a get that hands out the newest item instead of the oldest
QueueGetNewest(q) == [item |-> q[Len(q)], rest |-> SubSeq(q, 1, Len(q) - 1)]

\* queue.Queue.get: the item handed out and the queue left behind
QueueGet(q) == [item |-> Head(q), rest |-> Tail(q)]

\* the while condition of line 166
WorkerContinues == rec_running \/ rec_queue # <<>>

\* cv2.VideoWriter(...) and isOpened(): lines 161-165
WorkerOpen(w, ok) ==
    /\ workers[w].pc = "open"
    /\ workers' = [workers EXCEPT
                     ![w].pc = IF ok THEN "loop" ELSE "dead",
                     ![w].writer = IF ok THEN "open" ELSE "failed"]
    /\ UNCHANGED <<scenario, is_connected, cap, recording_state, streaming_state,
                   current_frame, connect_command, disconnect_command,
                   start_recording_command, stop_recording_command,
                   start_streaming_command, stop_streaming_command, rec_queue,
                   rec_thread, rec_running, stats, cam_pc, files, nframes,
                   nintents, nwerr, accepted, dropped, session>>
    /\ UNCHANGED pass_began_saving
    /\ UNCHANGED <<supVars, busVars, httpVars, codecVars>>

\* one evaluation of the while condition with a frame in the queue, and
\* rec_queue.get: lines 166-168 (a get that times out changes nothing)
WorkerGet(w) ==
    /\ workers[w].pc = "loop"
    /\ WorkerContinues
    /\ rec_queue # <<>>
    /\ rec_queue' = QueueGet(rec_queue).rest
    /\ workers' = [workers EXCEPT ![w].pc = "write",
                                  ![w].frame = QueueGet(rec_queue).item]
    /\ UNCHANGED <<scenario, is_connected, cap, recording_state, streaming_state,
                   current_frame, connect_command, disconnect_command,
                   start_recording_command, stop_recording_command,
                   start_streaming_command, stop_streaming_command,
                   rec_thread, rec_running, stats, cam_pc, files, nframes,
                   nintents, nwerr, accepted, dropped, session>>
    /\ UNCHANGED pass_began_saving
    /\ UNCHANGED <<supVars, busVars, httpVars, codecVars>>

\* one evaluation of the while condition that finds it false: line 166
WorkerLeaves(w) ==
    /\ workers[w].pc = "loop"
    /\ ~WorkerContinues
    /\ workers' = [workers EXCEPT ![w].pc = "release"]
    /\ UNCHANGED <<scenario, is_connected, cap, recording_state, streaming_state,
                   current_frame, connect_command, disconnect_command,
                   start_recording_command, stop_recording_command,
                   start_streaming_command, stop_streaming_command, rec_queue,
                   rec_thread, rec_running, stats, cam_pc, files, nframes,
                   nintents, nwerr, accepted, dropped, session>>
    /\ UNCHANGED pass_began_saving
    /\ UNCHANGED <<supVars, busVars, httpVars, codecVars>>

\* writer.release() and return: lines 176-177
WorkerExit(w) ==
    /\ workers[w].pc = "release"
    /\ workers' = [workers EXCEPT ![w].pc = "dead", ![w].writer = "released"]
    /\ UNCHANGED <<scenario, is_connected, cap, recording_state, streaming_state,
                   current_frame, connect_command, disconnect_command,
                   start_recording_command, stop_recording_command,
                   start_streaming_command, stop_streaming_command, rec_queue,
                   rec_thread, rec_running, stats, cam_pc, files, nframes,
                   nintents, nwerr, accepted, dropped, session>>
    /\ UNCHANGED pass_began_saving
    /\ UNCHANGED <<supVars, busVars, httpVars, codecVars>>

\* writer.write(frame): lines 171-175.  On success the frame is in the file
\* and the thread has loaded stats["record_written"]; an exception is printed
\* and the frame is gone
WorkerWrite(w, ok) ==
    /\ workers[w].pc = "write"
    /\ IF ok
       THEN /\ files' = [files EXCEPT ![w] = Append(@, workers[w].frame)]
            /\ workers' = [workers EXCEPT ![w].pc = "count",
                                          ![w].frame = 0,
                                          ![w].tmp = stats.record_written]
            /\ UNCHANGED nwerr
       ELSE /\ nwerr < MaxWriteErrors
            /\ nwerr' = nwerr + 1
            /\ workers' = [workers EXCEPT ![w].pc = "loop", ![w].frame = 0]
            /\ UNCHANGED files
    /\ UNCHANGED <<scenario, is_connected, cap, recording_state, streaming_state,
                   current_frame, connect_command, disconnect_command,
                   start_recording_command, stop_recording_command,
                   start_streaming_command, stop_streaming_command, rec_queue,
                   rec_thread, rec_running, stats, cam_pc, nframes, nintents,
                   accepted, dropped, session>>
    /\ UNCHANGED pass_began_saving
    /\ UNCHANGED <<supVars, busVars, httpVars, codecVars>>

\* the store of stats["record_written"] += 1: line 173
WorkerCount(w) ==
    /\ workers[w].pc = "count"
    /\ stats' = [stats EXCEPT !.record_written = workers[w].tmp + 1]
    /\ workers' = [workers EXCEPT ![w].pc = "loop", ![w].tmp = 0]
    /\ UNCHANGED <<scenario, is_connected, cap, recording_state, streaming_state,
                   current_frame, connect_command, disconnect_command,
                   start_recording_command, stop_recording_command,
                   start_streaming_command, stop_streaming_command, rec_queue,
                   rec_thread, rec_running, cam_pc, files, nframes, nintents,
                   nwerr, accepted, dropped, session>>
    /\ UNCHANGED pass_began_saving
    /\ UNCHANGED <<supVars, busVars, httpVars, codecVars>>

(***************************************************************************)
(* The environment of the camera: command flags set from outside           *)
(* (keyboard_listener, CameraService._on_message).                         *)
(***************************************************************************)

Intents == {"connect", "disconnect", "start_record", "stop_record",
            "start_stream", "stop_stream"}

IntentFlag(c) ==
    CASE c = "connect" -> connect_command
      [] c = "disconnect" -> disconnect_command
      [] c = "start_record" -> start_recording_command
      [] c = "stop_record" -> stop_recording_command
      [] c = "start_stream" -> start_streaming_command
      [] c = "stop_stream" -> stop_streaming_command

\* a flag that is already set is left as it is; every start_record flag may
\* create one worker thread, which the model has MaxWorkers of
SetIntent(c) ==
    /\ nintents < IntentBudget(scenario)
    /\ scenario \in {"backlog", "shutdown"} => c \in BacklogIntents
    /\ scenario = "viewers" => c \in ViewerIntents
    /\ ~IntentFlag(c)
    /\ c = "start_record" => NumWorkers < MaxWorkers
    /\ nintents' = nintents + 1
    /\ connect_command' = (connect_command \/ c = "connect")
    /\ disconnect_command' = (disconnect_command \/ c = "disconnect")
    /\ start_recording_command' = (start_recording_command \/ c = "start_record")
    /\ stop_recording_command' = (stop_recording_command \/ c = "stop_record")
    /\ start_streaming_command' = (start_streaming_command \/ c = "start_stream")
    /\ stop_streaming_command' = (stop_streaming_command \/ c = "stop_stream")
    /\ UNCHANGED <<scenario, is_connected, cap, recording_state, streaming_state,
                   current_frame, rec_queue, rec_thread, rec_running, stats,
                   cam_pc, workers, files, nframes, nwerr, accepted, dropped,
                   session>>
    /\ UNCHANGED pass_began_saving
    /\ UNCHANGED <<supVars, busVars, httpVars, codecVars>>

\* the command of a flag that is still set is given again: the assignment
\* stores True over True
RepeatIntent(c) ==
    /\ nintents < IntentBudget(scenario)
    /\ scenario = "viewers" => c \in ViewerIntents
    /\ IntentFlag(c)
    /\ nintents' = nintents + 1
    /\ connect_command' = (connect_command \/ c = "connect")
    /\ disconnect_command' = (disconnect_command \/ c = "disconnect")
    /\ start_recording_command' = (start_recording_command \/ c = "start_record")
    /\ stop_recording_command' = (stop_recording_command \/ c = "stop_record")
    /\ start_streaming_command' = (start_streaming_command \/ c = "start_stream")
    /\ stop_streaming_command' = (stop_streaming_command \/ c = "stop_stream")
    /\ UNCHANGED <<scenario, is_connected, cap, recording_state, streaming_state,
                   current_frame, rec_queue, rec_thread, rec_running, stats,
                   cam_pc, workers, files, nframes, nwerr, accepted, dropped,
                   session>>
    /\ UNCHANGED pass_began_saving
    /\ UNCHANGED <<supVars, busVars, httpVars, codecVars>>

CamNext ==
    \/ \E openOk \in BOOLEAN : TickIdle(openOk)
    \/ \E openOk \in BOOLEAN : TickReadFailure(openOk)
    \/ BackoffEnds
    \/ \E openOk \in BOOLEAN : TickStopped(openOk)
    \/ \E openOk \in BOOLEAN : TickRecording(openOk)
    \/ \E openOk \in BOOLEAN : TickSaving(openOk)
    \/ JoinReturn
    \/ \E w \in WorkerIds, ok \in BOOLEAN : WorkerOpen(w, ok)
    \/ \E w \in WorkerIds : WorkerGet(w)
    \/ \E w \in WorkerIds : WorkerLeaves(w)
    \/ \E w \in WorkerIds : WorkerExit(w)
    \/ \E w \in WorkerIds, ok \in BOOLEAN : WorkerWrite(w, ok)
    \/ \E w \in WorkerIds : WorkerCount(w)
    \/ \E c \in Intents : SetIntent(c)

\* the camera and the cancellation of its run task
ShutdownNext ==
    \/ CamNext
    \/ Cancel
    \/ FinalJoinReturn

(***************************************************************************)
(* CameraService: state after __init__ (which ends with connect_mqtt()).   *)
(* With the broker reachable client.connect() succeeded; the network       *)
(* thread, started before it, may already have run _on_connect, and then   *)
(* line 75 has set the in-flight flag after the callback cleared it.       *)
(***************************************************************************)
HeartbeatValues == 0..MaxHeartbeat

NoMessage == [heartbeatVal |-> -1, stepNum |-> -1]

SupInit ==
    /\ stepNum = ABORTING
    /\ heartbeat_detected = FALSE
    /\ last_heartbate_update_ms = 0
    /\ hb_i = 0
    /\ hb_o = 0
    /\ i_stepNum = 0
    /\ last_publish_time_ms = 0
    /\ timeNowMs = 0
    /\ sup_pc = "heartbeat"
    /\ now = PUBLISH_INTERVAL_MS
    /\ published = NoMessage
    /\ step_from = ABORTING
    /\ step_by = "init"
    /\ broker_up \in BOOLEAN
    /\ ever_reachable = broker_up
    /\ \/ /\ ~broker_up
          /\ link = "none"
          /\ mqtt_is_connected = FALSE
          /\ is_connecting_to_mqtt = FALSE
       \/ /\ broker_up
          /\ link = "tcp"
          /\ mqtt_is_connected = FALSE
          /\ is_connecting_to_mqtt = TRUE
       \/ /\ broker_up
          /\ link = "up"
          /\ mqtt_is_connected = TRUE
          /\ is_connecting_to_mqtt = TRUE

\* the service as constructed with no broker, for runs of the camera alone
SupQuiet ==
    /\ SupInit
    /\ ~broker_up

(***************************************************************************)
(* CameraService.run_state_machine: one pass of the while loop, statement  *)
(* by statement (the MQTT callbacks run on the client's network thread).   *)
(***************************************************************************)

\* checkHeartbeat: the step it leaves; changed is i.heartbeatVal # o.heartbeatVal
CheckHeartbeatStep(step, detected, changed, timedOut) ==
    IF changed
    THEN IF ~detected THEN RUNNING ELSE step
    ELSE IF detected /\ timedOut
         THEN IF ~detected THEN ABORTING ELSE step
         ELSE step

\* a check that never copies the received counter
MirrorHeartbeatStale(i, o) == i

\* lines 219-220: i.heartbeatVal after the comparison with o.heartbeatVal
MirrorHeartbeat(i, o) == IF i # o THEN o ELSE i

\* a guard that never forces the step to ABORTING
ForcedAbortNever(step, connected) == step

\* a forced abort that spares Idle
ForcedAbortRunningOnly(step, connected) ==
    IF step > IDLE /\ ~connected THEN ABORTING ELSE step

\* a forced abort from every step
ForcedAbortAnyStep(step, connected) ==
    IF ~connected THEN ABORTING ELSE step

\* lines 189-190
ForcedAbort(step, connected) ==
    IF step > RESETTING /\ ~connected THEN ABORTING ELSE step

\* a match statement whose RESETTING case does not look at the bus
MatchStepNoBusCheck(step, connected) ==
    CASE step = ABORTING -> INACTIVE
      [] step = INACTIVE -> RESETTING
      [] step = RESETTING -> IDLE
      [] OTHER -> step

\* a match statement whose INACTIVE case leaves the step as it is
MatchStepHoldsInactive(step, connected) ==
    CASE step = ABORTING -> INACTIVE
      [] step = RESETTING -> IF connected THEN IDLE ELSE RESETTING
      [] OTHER -> step

\* the match statement, lines 192-210: the step it leaves
MatchStep(step, connected) ==
    CASE step = ABORTING -> INACTIVE
      [] step = INACTIVE -> RESETTING
      [] step = RESETTING -> IF connected THEN IDLE ELSE RESETTING
      [] OTHER -> step

\* the RESETTING case calls connect_mqtt()
CallsConnect(step, connected, connecting) ==
    step = RESETTING /\ ~connected /\ ~connecting

\* time.sleep(1) of connect_mqtt; the clock of the model stops at its bound
AfterSleep(t) ==
    IF t + PUBLISH_INTERVAL_MS <= MaxClockTicks * PUBLISH_INTERVAL_MS
    THEN t + PUBLISH_INTERVAL_MS ELSE t

\* line 187-188: timeNowMs and checkHeartbeat()
SupHeartbeat ==
    LET changed == hb_i # hb_o
        timedOut == now - last_heartbate_update_ms > HEARTBEAT_TIMEOUT_MS
        step == CheckHeartbeatStep(stepNum, heartbeat_detected, changed, timedOut)
        sets == changed /\ ~heartbeat_detected
    IN
    /\ sup_pc = "heartbeat"
    /\ timeNowMs' = now
    /\ i_stepNum' = stepNum
    /\ hb_i' = MirrorHeartbeat(hb_i, hb_o)
    /\ last_heartbate_update_ms' = IF changed THEN now ELSE last_heartbate_update_ms
    /\ heartbeat_detected' = (heartbeat_detected \/ changed)
    /\ stepNum' = step
    /\ step_from' = IF sets THEN stepNum ELSE step_from
    /\ step_by' = IF sets THEN "heartbeat" ELSE step_by
    /\ sup_pc' = "guard"
    /\ UNCHANGED <<mqtt_is_connected, is_connecting_to_mqtt, hb_o,
                   last_publish_time_ms, now, broker_up, link, published,
                   ever_reachable>>
    /\ UNCHANGED <<camVars, busVars, httpVars, codecVars>>

\* lines 189-190
SupGuard ==
    LET sets == stepNum > RESETTING /\ ~mqtt_is_connected IN
    /\ sup_pc = "guard"
    /\ stepNum' = ForcedAbort(stepNum, mqtt_is_connected)
    /\ step_from' = IF sets THEN stepNum ELSE step_from
    /\ step_by' = IF sets THEN "guard" ELSE step_by
    /\ sup_pc' = "match"
    /\ UNCHANGED <<mqtt_is_connected, is_connecting_to_mqtt, heartbeat_detected,
                   last_heartbate_update_ms, hb_i, hb_o, i_stepNum,
                   last_publish_time_ms, timeNowMs, now, broker_up, link,
                   published, ever_reachable>>
    /\ UNCHANGED <<camVars, busVars, httpVars, codecVars>>

\* lines 192-210; inside connect_mqtt, client.connect() either returns with
\* the CONNECT sent or raises, and then the pass sleeps for a second
SupMatch ==
    LET step == MatchStep(stepNum, mqtt_is_connected)
        calls == CallsConnect(stepNum, mqtt_is_connected, is_connecting_to_mqtt)
    IN
    /\ sup_pc = "match"
    /\ stepNum' = step
    /\ step_from' = IF step # stepNum THEN stepNum ELSE step_from
    /\ step_by' = IF step # stepNum THEN "match" ELSE step_by
    /\ IF calls
       THEN IF broker_up
            THEN /\ link' = "tcp"
                 /\ sup_pc' = "connecting"
                 /\ UNCHANGED now
            ELSE /\ now' = AfterSleep(now)
                 /\ sup_pc' = "publish"
                 /\ UNCHANGED link
       ELSE /\ sup_pc' = "publish"
            /\ UNCHANGED <<link, now>>
    /\ UNCHANGED <<mqtt_is_connected, is_connecting_to_mqtt, heartbeat_detected,
                   last_heartbate_update_ms, hb_i, hb_o, i_stepNum,
                   last_publish_time_ms, timeNowMs, broker_up, published,
                   ever_reachable>>
    /\ UNCHANGED <<camVars, busVars, httpVars, codecVars>>

\* line 75, after client.connect() has returned
SupSetConnecting ==
    /\ sup_pc = "connecting"
    /\ is_connecting_to_mqtt' = TRUE
    /\ sup_pc' = "publish"
    /\ UNCHANGED <<stepNum, mqtt_is_connected, heartbeat_detected,
                   last_heartbate_update_ms, hb_i, hb_o, i_stepNum,
                   last_publish_time_ms, timeNowMs, now, broker_up, link,
                   published, ever_reachable, step_from, step_by>>
    /\ UNCHANGED <<camVars, busVars, httpVars, codecVars>>

\* a publish that does not look at the bus
PublishesAlways(connected) == TRUE

\* publish_device_data hands a message to the client unless the bus is down
Publishes(connected) == connected

\* lines 211-215 and publish_device_data
SupPublish ==
    LET due == timeNowMs - last_publish_time_ms >= PUBLISH_INTERVAL_MS IN
    /\ sup_pc = "publish"
    /\ sup_pc' = "heartbeat"
    /\ IF due
       THEN /\ last_publish_time_ms' = timeNowMs
            /\ i_stepNum' = stepNum
            /\ published' = IF Publishes(mqtt_is_connected)
                            THEN [heartbeatVal |-> hb_i, stepNum |-> stepNum]
                            ELSE published
       ELSE UNCHANGED <<last_publish_time_ms, i_stepNum, published>>
    /\ UNCHANGED <<stepNum, mqtt_is_connected, is_connecting_to_mqtt,
                   heartbeat_detected, last_heartbate_update_ms, hb_i, hb_o,
                   timeNowMs, now, broker_up, link, ever_reachable, step_from,
                   step_by>>
    /\ UNCHANGED <<camVars, busVars, httpVars, codecVars>>

(***************************************************************************)
(* The MQTT client's network thread and the world around the service.      *)
(***************************************************************************)

\* _on_connect: the CONNACK of a pending connection arrives
OnConnect ==
    /\ link = "tcp"
    /\ link' = "up"
    /\ mqtt_is_connected' = TRUE
    /\ is_connecting_to_mqtt' = FALSE
    /\ UNCHANGED <<stepNum, heartbeat_detected, last_heartbate_update_ms, hb_i,
                   hb_o, i_stepNum, last_publish_time_ms, timeNowMs, sup_pc, now,
                   broker_up, published, ever_reachable, step_from, step_by>>
    /\ UNCHANGED <<camVars, busVars, httpVars, codecVars>>

\* _on_disconnect: the connection, pending or established, is lost
OnDisconnect ==
    /\ link \in {"tcp", "up"}
    /\ link' = "none"
    /\ mqtt_is_connected' = FALSE
    /\ is_connecting_to_mqtt' = FALSE
    /\ UNCHANGED <<stepNum, heartbeat_detected, last_heartbate_update_ms, hb_i,
                   hb_o, i_stepNum, last_publish_time_ms, timeNowMs, sup_pc, now,
                   broker_up, published, ever_reachable, step_from, step_by>>
    /\ UNCHANGED <<camVars, busVars, httpVars, codecVars>>

\* the client library reconnects by itself while the broker can be reached
\* ("Paho will auto-reconnect")
PahoReconnect ==
    /\ link = "none"
    /\ broker_up
    /\ sup_pc # "connecting"
    /\ link' = "tcp"
    /\ UNCHANGED <<stepNum, mqtt_is_connected, is_connecting_to_mqtt,
                   heartbeat_detected, last_heartbate_update_ms, hb_i, hb_o,
                   i_stepNum, last_publish_time_ms, timeNowMs, sup_pc, now,
                   broker_up, published, ever_reachable, step_from, step_by>>
    /\ UNCHANGED <<camVars, busVars, httpVars, codecVars>>

\* _on_message with a status message of the controller: the heartbeat
\* counter it carries is mirrored into iExtService.o
OnMessage(v) ==
    /\ link = "up"
    /\ hb_o' = v
    /\ UNCHANGED <<stepNum, mqtt_is_connected, is_connecting_to_mqtt,
                   heartbeat_detected, last_heartbate_update_ms, hb_i, i_stepNum,
                   last_publish_time_ms, timeNowMs, sup_pc, now, broker_up, link,
                   published, ever_reachable, step_from, step_by>>
    /\ UNCHANGED <<camVars, busVars, httpVars, codecVars>>

\* the broker becomes reachable or unreachable
BrokerChange ==
    /\ broker_up' = ~broker_up
    /\ ever_reachable' = (ever_reachable \/ broker_up')
    /\ UNCHANGED <<stepNum, mqtt_is_connected, is_connecting_to_mqtt,
                   heartbeat_detected, last_heartbate_update_ms, hb_i, hb_o,
                   i_stepNum, last_publish_time_ms, timeNowMs, sup_pc, now, link,
                   published, step_from, step_by>>
    /\ UNCHANGED <<camVars, busVars, httpVars, codecVars>>

\* a publish interval passes
ClockTick ==
    /\ now < MaxClockTicks * PUBLISH_INTERVAL_MS
    /\ now' = now + PUBLISH_INTERVAL_MS
    /\ UNCHANGED <<stepNum, mqtt_is_connected, is_connecting_to_mqtt,
                   heartbeat_detected, last_heartbate_update_ms, hb_i, hb_o,
                   i_stepNum, last_publish_time_ms, timeNowMs, sup_pc,
                   broker_up, link, published, ever_reachable, step_from,
                   step_by>>
    /\ UNCHANGED <<camVars, busVars, httpVars, codecVars>>

SupNext ==
    \/ SupHeartbeat
    \/ SupGuard
    \/ SupMatch
    \/ SupSetConnecting
    \/ SupPublish
    \/ OnConnect
    \/ OnDisconnect
    \/ PahoReconnect
    \/ \E v \in HeartbeatValues : OnMessage(v)
    \/ BrokerChange
    \/ ClockTick

(***************************************************************************)
(* CameraService._on_message: every kind of message the bus can deliver.   *)
(* form: "bad_json" (json.loads raises), "no_payload" (no 'payload' key),  *)
(* "ok".  The topic the handler compares against in line 123,              *)
(* SubscriptionTopics.MACHINE_VIS_STATUS, is not among the members that    *)
(* config.py gives the enum; it is taken to be the bus liveness topic.     *)
(***************************************************************************)
StatusTopic == "machine_vis_status"

ActionTopic == "action_req"

\* the keys of self.cameras
CameraIds == {1}

\* a camera id and a command the service does not know
UnknownCameraId == 2

UnknownCommand == "reboot"

Message(form, topic, heartbeatVal, cmd, cam) ==
    [form |-> form, topic |-> topic, heartbeatVal |-> heartbeatVal,
     cmd |-> cmd, cam |-> cam]

StatusMessages == {Message("ok", StatusTopic, v, "", 0) : v \in HeartbeatValues}

\* every command and an unknown one for the camera, one for an unknown id
CommandMessages ==
    {Message("ok", ActionTopic, 0, c, k) :
        c \in Intents \cup {UnknownCommand}, k \in CameraIds}
    \cup {Message("ok", ActionTopic, 0, "start_stream", UnknownCameraId)}

MalformedMessages ==
    {Message(f, t, MaxHeartbeat, "connect", 1) :
        f \in {"bad_json", "no_payload"}, t \in {StatusTopic, ActionTopic}}

BusMessages == StatusMessages \cup CommandMessages \cup MalformedMessages

\* line 134
ActionType == ""

\* a handler that mirrors the counter of whatever arrives on the status topic
MirrorsHeartbeatUnchecked(m) == m.topic = StatusTopic

\* lines 110-129: the message reaches the assignment of iExtService.o
MirrorsHeartbeat(m) ==
    /\ m.form # "bad_json"
    /\ m.form # "no_payload"
    /\ m.topic = StatusTopic

\* lines 134-156: the command flag the message sets, "" for none.  The
\* lookup self.cameras[cam_id] of an unknown id raises KeyError
DispatchedFlag(m) ==
    IF /\ m.form = "ok"
       /\ m.topic # StatusTopic
       /\ ActionType = "cmd"
       /\ m.cam \in CameraIds
       /\ m.cmd \in Intents
    THEN m.cmd ELSE ""

OnBusMessage(m) ==
    /\ link = "up"
    /\ Len(msgs) < MaxMessages
    /\ msgs' = Append(msgs, m)
    /\ hb_o' = IF MirrorsHeartbeat(m) THEN m.heartbeatVal ELSE hb_o
    /\ connect_command' = (connect_command \/ DispatchedFlag(m) = "connect")
    /\ disconnect_command' = (disconnect_command \/ DispatchedFlag(m) = "disconnect")
    /\ start_recording_command' =
           (start_recording_command \/ DispatchedFlag(m) = "start_record")
    /\ stop_recording_command' =
           (stop_recording_command \/ DispatchedFlag(m) = "stop_record")
    /\ start_streaming_command' =
           (start_streaming_command \/ DispatchedFlag(m) = "start_stream")
    /\ stop_streaming_command' =
           (stop_streaming_command \/ DispatchedFlag(m) = "stop_stream")
    /\ UNCHANGED <<scenario, is_connected, cap, recording_state, streaming_state,
                   current_frame, rec_queue, rec_thread, rec_running, stats,
                   cam_pc, workers, files, nframes, nintents, nwerr, accepted,
                   dropped, session, pass_began_saving>>
    /\ UNCHANGED <<stepNum, mqtt_is_connected, is_connecting_to_mqtt,
                   heartbeat_detected, last_heartbate_update_ms, hb_i, i_stepNum,
                   last_publish_time_ms, timeNowMs, sup_pc, now, broker_up, link,
                   published, ever_reachable, step_from, step_by>>
    /\ UNCHANGED <<httpVars, codecVars>>

BusInit == msgs = <<>>

BusNext ==
    \/ \E m \in BusMessages : OnBusMessage(m)
    \/ SupHeartbeat
    \/ SupGuard
    \/ SupMatch
    \/ SupSetConnecting
    \/ SupPublish
    \/ OnConnect
    \/ OnDisconnect
    \/ PahoReconnect

(***************************************************************************)
(* CameraDevice.mjpeg_handler: one call per HTTP client k.                 *)
(* pc: "none" (no request yet), "refused" (503 returned), "open" (response *)
(* prepared, at the while condition), "sending" (inside a pass of the      *)
(* loop, the frame copied), "lost" (the write to the client failed),       *)
(* "ended" (the while condition was false).  stale, of a client inside its *)
(* loop: the while condition has been false at some moment since the loop  *)
(* was entered.                                                            *)
(***************************************************************************)
NoClient == [pc |-> "none", sent |-> 0, stale |-> FALSE]

HttpInit == clients = [k \in ClientIds |-> NoClient]

\* an endpoint that only asks for a connected camera
ServesWhenConnected(conn, capOpen, ss) == conn /\ capOpen

\* lines 232-236: the request is not answered with 503
Serves(conn, capOpen, ss) == conn /\ capOpen /\ ss = "streaming"

\* a write failure that ends the loop of every client
ClientLostAll(k) ==
    [j \in ClientIds |->
        IF clients[j].pc \in {"open", "sending"}
        THEN [clients[j] EXCEPT !.pc = "lost", !.stale = FALSE]
        ELSE clients[j]]

\* lines 282-297: the handler calls after the write to client k has failed
ClientLost(k) == [clients EXCEPT ![k].pc = "lost", ![k].stale = FALSE]

\* lines 232-243; the clients are numbered in the order of their requests
ClientRequest(k) ==
    /\ clients[k].pc = "none"
    /\ \A j \in ClientIds : j < k => clients[j].pc # "none"
    /\ clients' = [clients EXCEPT
                     ![k].pc = IF Serves(is_connected, cap, streaming_state)
                               THEN "open" ELSE "refused"]
    /\ UNCHANGED <<camVars, supVars, busVars, codecVars>>

\* a pass of the loop begins: the while condition holds, the lock is taken
\* and the latest frame copied and encoded, lines 246-275 (with no frame
\* yet the pass sleeps and comes back to the condition)
ClientBegin(k) ==
    /\ clients[k].pc = "open"
    /\ LoopContinues
    /\ current_frame # 0
    /\ stats.stream_sent
         + Cardinality({j \in ClientIds : clients[j].pc = "sending"}) < MaxSends
    /\ clients' = [clients EXCEPT ![k].pc = "sending"]
    /\ UNCHANGED <<camVars, supVars, busVars, codecVars>>

\* the frame is written and the pass sleeps: lines 276-281 and 290
ClientSend(k) ==
    /\ clients[k].pc = "sending"
    /\ clients' = [clients EXCEPT ![k].sent = @ + 1, ![k].pc = "open"]
    /\ stats' = [stats EXCEPT !.stream_sent = @ + 1]
    /\ UNCHANGED <<scenario, is_connected, cap, recording_state, streaming_state,
                   current_frame, connect_command, disconnect_command,
                   start_recording_command, stop_recording_command,
                   start_streaming_command, stop_streaming_command, rec_queue,
                   rec_thread, rec_running, cam_pc, workers, files, nframes,
                   nintents, nwerr, accepted, dropped, session,
                   pass_began_saving>>
    /\ UNCHANGED <<supVars, busVars, codecVars>>

\* the client has gone away or the write raises: lines 282-287, 291-297
ClientWriteFails(k) ==
    /\ clients[k].pc = "sending"
    /\ clients' = ClientLost(k)
    /\ UNCHANGED <<camVars, supVars, busVars, codecVars>>

\* the while condition is false: lines 246, 291-297
ClientLoopEnds(k) ==
    /\ clients[k].pc = "open"
    /\ ~LoopContinues
    /\ clients' = [clients EXCEPT ![k].pc = "ended", ![k].stale = FALSE]
    /\ UNCHANGED <<camVars, supVars, busVars, codecVars>>

\* no recording of the "viewers" scenario reaches "saving"
StreamNext ==
    \/ \E openOk \in BOOLEAN : TickIdle(openOk)
    \/ \E openOk \in BOOLEAN : TickReadFailure(openOk)
    \/ BackoffEnds
    \/ \E openOk \in BOOLEAN : TickStopped(openOk)
    \/ \E openOk \in BOOLEAN : TickRecording(openOk)
    \/ \E w \in WorkerIds, ok \in BOOLEAN : WorkerOpen(w, ok)
    \/ \E w \in WorkerIds : WorkerGet(w)
    \/ \E w \in WorkerIds, ok \in BOOLEAN : WorkerWrite(w, ok)
    \/ \E w \in WorkerIds : WorkerCount(w)
    \/ \E c \in Intents : SetIntent(c)
    \/ \E c \in Intents : RepeatIntent(c)
    \/ \E k \in ClientIds : ClientRequest(k)
    \/ \E k \in ClientIds : ClientBegin(k)
    \/ \E k \in ClientIds : ClientSend(k)
    \/ \E k \in ClientIds : ClientWriteFails(k)
    \/ \E k \in ClientIds : ClientLoopEnds(k)

(***************************************************************************)
(* The status snapshot: CameraService.vis_sts.cameraStates, its JSON form  *)
(* (publish_vision_status) and the structure from_dict builds from a       *)
(* received payload (_on_message).  A string is a sequence of characters;  *)
(* a JSON value is a record of its kind and its text or number.            *)
(***************************************************************************)
CameraCount == 1..MaxCameras

\* video device node strings: one of characters that JSON writes as they
\* are and one of the two characters it has to escape
NodeStrings == {<<"/", "v">>, <<"\"", "\\">>}

\* CameraRecordingState: STOPPED, RECORDING, SAVING
RecordingStateValues == 0..2

\* the states a camera reports; recordingState holds a
\* CameraRecordingState member or a plain int
CameraStatusValues ==
    [isConnected : BOOLEAN,
     recordingState : [value : RecordingStateValues, member : BOOLEAN],
     isStreaming : BOOLEAN,
     videoDeviceNodeString : NodeStrings]

\* CameraStatus()
DefaultCameraStatus ==
    [isConnected |-> FALSE,
     recordingState |-> [value |-> 0, member |-> TRUE],
     isStreaming |-> FALSE,
     videoDeviceNodeString |-> <<>>]

NoWire == [sent |-> FALSE, cameraStates |-> <<>>]

NoParse == [done |-> FALSE, ok |-> FALSE, cameraStates |-> <<>>]

\* an encoder that writes every character as it is
EscapeNothing(ch) == <<ch>>

\* json.dumps: the text of one character inside a string
EscapeChar(ch) ==
    IF ch = "\"" THEN <<"\\", "\"">>
    ELSE IF ch = "\\" THEN <<"\\", "\\">>
    ELSE <<ch>>

RECURSIVE EscapeAll(_)
EscapeAll(str) ==
    IF str = <<>> THEN <<>> ELSE EscapeChar(Head(str)) \o EscapeAll(Tail(str))

\* json.dumps of a str: the escaped characters between two quotes
EncodeString(str) == <<"\"">> \o EscapeAll(str) \o <<"\"">>

\* json.loads of a string text from position i on: a backslash takes the next
\* character when that is one JSON allows after it, a quote ends the string
\* and has to be the last character
RECURSIVE ScanString(_, _, _)
ScanString(text, i, acc) ==
    IF i > Len(text) THEN [ok |-> FALSE, str |-> <<>>]
    ELSE IF text[i] = "\"" THEN [ok |-> i = Len(text), str |-> acc]
    ELSE IF text[i] = "\\"
         THEN IF i + 1 <= Len(text) /\ text[i + 1] \in {"\"", "\\", "/"}
              THEN ScanString(text, i + 2, Append(acc, text[i + 1]))
              ELSE [ok |-> FALSE, str |-> <<>>]
    ELSE ScanString(text, i + 1, Append(acc, text[i]))

DecodeString(text) ==
    IF text = <<>> \/ Head(text) # "\"" THEN [ok |-> FALSE, str |-> <<>>]
    ELSE ScanString(text, 2, <<>>)

\* the JSON values json.dumps writes for a bool, an int (a member of an
\* IntEnum is written as its number) and a str
JsonBool(b) == [kind |-> "bool", lit |-> IF b THEN "true" ELSE "false",
                n |-> 0, text |-> <<>>]

JsonNumber(v) == [kind |-> "number", lit |-> "", n |-> v.value, text |-> <<>>]

JsonString(str) == [kind |-> "string", lit |-> "", n |-> 0,
                    text |-> EncodeString(str)]

\* asdict and json.dumps of one CameraStatus
DumpCameraStatus(st) ==
    [isConnected |-> JsonBool(st.isConnected),
     recordingState |-> JsonNumber(st.recordingState),
     isStreaming |-> JsonBool(st.isStreaming),
     videoDeviceNodeString |-> JsonString(st.videoDeviceNodeString)]

\* json.loads of one value: a Python bool, int or str, or a decode error
LoadValue(j) ==
    CASE j.kind = "bool" ->
           [ok |-> j.lit \in {"true", "false"}, type |-> "bool",
            b |-> j.lit = "true", n |-> 0, str |-> <<>>]
      [] j.kind = "number" ->
           [ok |-> TRUE, type |-> "int", b |-> FALSE, n |-> j.n, str |-> <<>>]
      [] OTHER ->
           [ok |-> DecodeString(j.text).ok, type |-> "str", b |-> FALSE,
            n |-> 0, str |-> DecodeString(j.text).str]

\* from_dict(CameraStatus, data): every field has the type of its annotation
FromDictOk(o) ==
    /\ LoadValue(o.isConnected).ok /\ LoadValue(o.isConnected).type = "bool"
    /\ LoadValue(o.recordingState).ok /\ LoadValue(o.recordingState).type = "int"
    /\ LoadValue(o.isStreaming).ok /\ LoadValue(o.isStreaming).type = "bool"
    /\ LoadValue(o.videoDeviceNodeString).ok
    /\ LoadValue(o.videoDeviceNodeString).type = "str"

FromDict(o) ==
    [isConnected |-> LoadValue(o.isConnected).b,
     recordingState |-> [value |-> LoadValue(o.recordingState).n,
                         member |-> FALSE],
     isStreaming |-> LoadValue(o.isStreaming).b,
     videoDeviceNodeString |-> LoadValue(o.videoDeviceNodeString).str]

\* Python ==  of two CameraStatus objects: a member of an IntEnum equals the
\* int of its value
SameStatus(a, b) ==
    /\ a.isConnected = b.isConnected
    /\ a.recordingState.value = b.recordingState.value
    /\ a.isStreaming = b.isStreaming
    /\ a.videoDeviceNodeString = b.videoDeviceNodeString

\* the service as constructed for n cameras: the entry of index 0 and one
\* CameraStatus per camera
CodecInit ==
    /\ \E n \in CameraCount :
         /\ cameraStates = [i \in 1..(n + 1) |-> DefaultCameraStatus]
         /\ reported = [k \in 1..n |-> DefaultCameraStatus]
    /\ wire = NoWire
    /\ parsed = NoParse
    /\ ncallbacks = 0

\* the service as constructed for the cameras of CameraIds
CodecQuiet ==
    /\ cameraStates = [i \in 1..(Cardinality(CameraIds) + 1) |-> DefaultCameraStatus]
    /\ reported = [k \in 1..Cardinality(CameraIds) |-> DefaultCameraStatus]
    /\ wire = NoWire
    /\ parsed = NoParse
    /\ ncallbacks = 0

\* the[idx] = ... of a Python list of length len: the position written
\* (index 0 is position 1, a negative index counts from the end), or 0 when
\* the assignment raises IndexError
ListPosition(len, idx) ==
    IF idx >= 0 /\ idx < len THEN idx + 1
    ELSE IF idx < 0 /\ idx >= -len THEN len + idx + 1
    ELSE 0

\* the indices a callback is called with: the list's own, the negative
\* ones, and one more on either side
CallbackIndices == (-(Len(cameraStates) + 1))..Len(cameraStates)

\* the states of the calls: the first call of a run reports any state, a
\* later one any connection flag and device string
ReportValues ==
    IF ncallbacks = 0 THEN CameraStatusValues
    ELSE {s \in CameraStatusValues :
            /\ s.recordingState = DefaultCameraStatus.recordingState
            /\ ~s.isStreaming}

\* camera_state_callback(cam_index, state): the assignment of line 169; an
\* IndexError is caught at line 171 and the snapshot stays as it is
CameraStateCallback(cam_index, state) ==
    LET pos == ListPosition(Len(cameraStates), cam_index) IN
    /\ ~wire.sent
    /\ ncallbacks < MaxCallbacks
    /\ ncallbacks' = ncallbacks + 1
    /\ cameraStates' = IF pos = 0 THEN cameraStates
                       ELSE [cameraStates EXCEPT ![pos] = state]
    /\ reported' = IF cam_index \in DOMAIN reported
                   THEN [reported EXCEPT ![cam_index] = state]
                   ELSE reported
    /\ UNCHANGED <<wire, parsed>>
    /\ UNCHANGED <<camVars, supVars, busVars, httpVars>>

\* publish_vision_status: asdict, json.dumps, publish
PublishVisionStatus ==
    /\ ~wire.sent
    /\ wire' = [sent |-> TRUE,
                cameraStates |-> [i \in DOMAIN cameraStates |->
                                    DumpCameraStatus(cameraStates[i])]]
    /\ UNCHANGED <<cameraStates, parsed, reported, ncallbacks>>
    /\ UNCHANGED <<camVars, supVars, busVars, httpVars>>

\* json.loads and from_dict of the payload
ParseVisionStatus ==
    /\ wire.sent
    /\ ~parsed.done
    /\ LET ok == \A i \in DOMAIN wire.cameraStates : FromDictOk(wire.cameraStates[i])
       IN  parsed' = [done |-> TRUE,
                      ok |-> ok,
                      cameraStates |-> IF ok
                                       THEN [i \in DOMAIN wire.cameraStates |->
                                               FromDict(wire.cameraStates[i])]
                                       ELSE <<>>]
    /\ UNCHANGED <<cameraStates, wire, reported, ncallbacks>>
    /\ UNCHANGED <<camVars, supVars, busVars, httpVars>>

CodecNext ==
    \/ \E i \in CallbackIndices, st \in ReportValues : CameraStateCallback(i, st)
    \/ PublishVisionStatus
    \/ ParseVisionStatus

(***************************************************************************)
(* Specifications.                                                         *)
(***************************************************************************)

\* one camera, the service left as constructed
Init ==
    /\ CamInit
    /\ scenario \in {"commands", "backlog"}
    /\ SupQuiet
    /\ BusInit
    /\ HttpInit
    /\ CodecQuiet

Next == CamNext

Spec == Init /\ [][Next]_vars

\* the supervisor, the camera left as constructed
SupStart ==
    /\ SupInit
    /\ CamInit
    /\ scenario = "commands"
    /\ BusInit
    /\ HttpInit
    /\ CodecQuiet

SupSpec == SupStart /\ [][SupNext]_vars

\* the supervisor and the messages of the bus
BusSpec == SupStart /\ [][BusNext]_vars

\* one camera and the HTTP clients of its stream
StreamStart ==
    /\ CamInit
    /\ scenario = "viewers"
    /\ SupQuiet
    /\ BusInit
    /\ HttpInit
    /\ CodecQuiet

StreamSpec == StreamStart /\ [][StreamNext]_vars

\* the status snapshot of one to MaxCameras cameras, published and parsed
CodecStart ==
    /\ CamInit
    /\ scenario = "commands"
    /\ SupQuiet
    /\ BusInit
    /\ HttpInit
    /\ CodecInit

CodecSpec == CodecStart /\ [][CodecNext]_vars

\* one camera whose run task is cancelled
ShutdownStart ==
    /\ CamInit
    /\ scenario = "shutdown"
    /\ SupQuiet
    /\ BusInit
    /\ HttpInit
    /\ CodecQuiet

ShutdownSpec == ShutdownStart /\ [][ShutdownNext]_vars

\* the run loop of the camera takes its next step: a pass of the while loop
\* (it awaits only sleeps that return), or the return of Thread.join, whose
\* timeout is three seconds
RunLoopStep ==
    \/ \E openOk \in BOOLEAN : TickIdle(openOk)
    \/ \E openOk \in BOOLEAN : TickReadFailure(openOk)
    \/ BackoffEnds
    \/ \E openOk \in BOOLEAN : TickStopped(openOk)
    \/ \E openOk \in BOOLEAN : TickRecording(openOk)
    \/ \E openOk \in BOOLEAN : TickSaving(openOk)
    \/ JoinReturn

\* one camera under every command, its run loop scheduled again and again
LiveStart ==
    /\ CamInit
    /\ scenario = "commands"
    /\ SupQuiet
    /\ BusInit
    /\ HttpInit
    /\ CodecQuiet

LiveSpec == LiveStart /\ [][CamNext]_vars /\ WF_vars(RunLoopStep)

(***************************************************************************)
(* Properties.                                                             *)
(***************************************************************************)

Range(seq) == {seq[i] : i \in 1..Len(seq)}

StrictlyIncreasing(seq) == \A i, j \in 1..Len(seq) : i < j => seq[i] < seq[j]

\* C1: recording_state is never "recording" while the camera is
\* disconnected.  Stated as the claim has it; a failed read closes the
\* capture and leaves recording_state alone.
C1_NeverRecordingWhileDisconnected ==
    ~(recording_state = "recording" /\ ~is_connected)

\* C2: at most one live recording worker with an open writer exists per
\* camera at any time.  Stated as the claim has it; a join that times out
\* forgets a live worker and the next start_record creates a second one.
C2_AtMostOneRecordingJob ==
    Cardinality({w \in LiveWorkers : workers[w].writer = "open"}) <= 1

\* C3: once a recording session is finalized (recording_state back to
\* "stopped", its worker returned), frames written plus frames dropped equals
\* the frames the run loop offered to the queue during the session.  Stated
\* as the claim has it.
C3_SessionAccounting ==
    ( /\ session.worker # 0
      /\ recording_state = "stopped"
      /\ cam_pc = "loop"
      /\ workers[session.worker].pc = "dead" )
        => Len(files[session.worker]) + session.refused = session.offered

\* C4: stats["dropped_for_rec"] grows only in an enqueue attempt that finds
\* REC_QUEUE_MAXSIZE frames in the queue; an attempt that finds fewer appends
\* the frame and drops nothing; the queue never holds more than
\* REC_QUEUE_MAXSIZE frames.
C4_DropOnlyWhenFull ==
    [][ LET attempt == session'.worker = session.worker
                       /\ session'.offered = session.offered + 1
        IN  /\ stats'.dropped_for_rec > stats.dropped_for_rec
                 => /\ attempt
                    /\ Len(rec_queue) = REC_QUEUE_MAXSIZE
                    /\ rec_queue' = rec_queue
                    /\ stats'.dropped_for_rec = stats.dropped_for_rec + 1
            /\ (attempt /\ Len(rec_queue) < REC_QUEUE_MAXSIZE)
                 => /\ rec_queue' = Append(rec_queue, nframes')
                    /\ stats'.dropped_for_rec = stats.dropped_for_rec
            /\ Len(rec_queue) <= REC_QUEUE_MAXSIZE
            /\ Len(rec_queue') <= REC_QUEUE_MAXSIZE ]_vars

\* C4 witness: a frame has been dropped at a full queue
C4_Witness ==
    /\ stats.dropped_for_rec >= 1
    /\ Len(rec_queue) = REC_QUEUE_MAXSIZE
    /\ dropped # {}

\* C5: every recording file holds frames in the order they were accepted
\* into the queue: it is an order-preserving selection of the accepted
\* frames, holds no dropped frame, and no frame is written twice, in one file
\* or in two.
C5_WrittenInAcceptanceOrder ==
    /\ StrictlyIncreasing(accepted)
    /\ \A w \in WorkerIds :
          /\ StrictlyIncreasing(files[w])
          /\ Range(files[w]) \subseteq Range(accepted)
          /\ Range(files[w]) \cap dropped = {}
    /\ \A w1, w2 \in WorkerIds :
          w1 # w2 => Range(files[w1]) \cap Range(files[w2]) = {}

\* C5 witness: a file with two frames of a session in which a frame was
\* dropped
C5_Witness ==
    /\ dropped # {}
    /\ \E w \in WorkerIds : Len(files[w]) >= 2

\* C6: when a heartbeat change was detected earlier and checkHeartbeat finds
\* no new change for longer than the timeout, it leaves the step at ABORTING.
\* Stated as the claim has it; the branch that would do so is dead code.
C6_TimeoutForcesAborting ==
    [][ ( /\ sup_pc = "heartbeat"
          /\ sup_pc' = "guard"
          /\ heartbeat_detected
          /\ hb_i = hb_o
          /\ now - last_heartbate_update_ms > HEARTBEAT_TIMEOUT_MS )
        => stepNum' = ABORTING ]_vars

\* C7: a complete pass of the run loop that begins with recording_state =
\* "saving" ends with recording_state = "stopped", connected or not.  Stated
\* as the claim has it; the saving branch is inside "if connected".
C7_SavingCompletes ==
    ~(pass_began_saving /\ recording_state = "saving")

StageOf(step) ==
    CASE step = ABORTING -> 0
      [] step = INACTIVE -> 1
      [] step = RESETTING -> 2
      [] step = IDLE -> 3
      [] step = RUNNING -> 4

\* C8 as the claim has it: the step changes only to the next stage of
\* Aborting, Inactive, Resetting, Idle, Running, or to Aborting from Idle or
\* Running.
C8_Original ==
    [][ stepNum' # stepNum
        => \/ StageOf(stepNum') = StageOf(stepNum) + 1
           \/ stepNum \in {IDLE, RUNNING} /\ stepNum' = ABORTING ]_vars

\* C8 (amended): every assignment that changes the step moves it to the next
\* stage of Aborting, Inactive, Resetting, Idle, Running, or to Aborting from
\* Idle or Running, or, at the first detected heartbeat change, to Running
\* from whatever step it is in.
C8_StepChanges ==
    [][ stepNum' # stepNum
        => \/ StageOf(stepNum') = StageOf(stepNum) + 1
           \/ stepNum \in {IDLE, RUNNING} /\ stepNum' = ABORTING
           \/ /\ ~heartbeat_detected
              /\ heartbeat_detected'
              /\ stepNum' = RUNNING ]_vars

\* C8 witness: the first heartbeat change has moved the step from Aborting
\* straight to Running
C8_Witness ==
    /\ sup_pc = "guard"
    /\ step_by = "heartbeat"
    /\ step_from = ABORTING
    /\ stepNum = RUNNING

\* C9: no step leaves Running while the bus is connected, and the statement
\* that observes the bus disconnected with the step at Idle or Running sets
\* the step to Aborting.
C9_RunningHoldsUntilBusLoss ==
    [][ /\ (stepNum = RUNNING /\ mqtt_is_connected) => stepNum' = RUNNING
        /\ ( /\ sup_pc = "guard"
             /\ sup_pc' = "match"
             /\ stepNum \in {IDLE, RUNNING}
             /\ ~mqtt_is_connected )
           => stepNum' = ABORTING ]_vars

\* C9 witness: the bus check of a pass has just forced Running to Aborting
C9_Witness ==
    /\ sup_pc = "match"
    /\ step_by = "guard"
    /\ step_from = RUNNING
    /\ stepNum = ABORTING

\* C10: as long as the broker has never been reachable the step is Aborting,
\* Inactive or Resetting, never Idle or Running.
C10_NoIdleWithoutBus ==
    ~ever_reachable => stepNum \in {ABORTING, INACTIVE, RESETTING}

\* C10 witness: the broker was never reachable, a connection attempt has
\* failed and its retry delay has passed, and the step is Resetting
C10_Witness ==
    /\ ~ever_reachable
    /\ stepNum = RESETTING
    /\ sup_pc = "publish"
    /\ now > PUBLISH_INTERVAL_MS

\* C11: a status snapshot is handed to the bus only by the publish statement
\* of a pass that finds the bus connected, and it carries the heartbeat value
\* and the step of that moment; a pass that finds the bus disconnected
\* publishes nothing and keeps nothing for later.
C11_PublishOnlyWhenConnected ==
    [][published' # published =>
          /\ sup_pc = "publish"
          /\ mqtt_is_connected
          /\ published' = [heartbeatVal |-> hb_i, stepNum |-> stepNum]]_vars

\* the publish interval has run out in a pass with the bus down, and nothing
\* has been published
C11_Witness ==
    /\ published = NoMessage
    /\ ~mqtt_is_connected
    /\ sup_pc = "heartbeat"
    /\ last_publish_time_ms >= PUBLISH_INTERVAL_MS
    /\ now > last_publish_time_ms

\* C12: in Idle with the bus up the step stays Idle or becomes Running, and
\* every heartbeat check that finds the mirrored counter changed while the
\* step is Idle and the bus is up sets Running.
C12_IdleUntilHeartbeat ==
    [][/\ (stepNum = IDLE /\ mqtt_is_connected) => stepNum' \in {IDLE, RUNNING}
       /\ (/\ sup_pc = "heartbeat"
           /\ sup_pc' = "guard"
           /\ stepNum = IDLE
           /\ mqtt_is_connected
           /\ hb_i # hb_o) => stepNum' = RUNNING]_vars

IntentFlags == [c \in Intents |-> IntentFlag(c)]

Last(seq) == seq[Len(seq)]

\* the step is a call of _on_message
Delivers == Len(msgs') = Len(msgs) + 1

WellFormedCommand(m) ==
    m \in CommandMessages /\ m.cam \in CameraIds /\ m.cmd \in Intents

DroppedMessage(m) ==
    \/ m \in MalformedMessages
    \/ m \in CommandMessages /\ (m.cam \notin CameraIds \/ m.cmd \notin Intents)

\* C13: a well-formed command for an existing camera sets the flag of that
\* command and leaves the other flags as they were.
C13_CommandSetsFlag ==
    [][(Delivers /\ WellFormedCommand(Last(msgs'))) =>
          IntentFlags' = [c \in Intents |->
                             IntentFlags[c] \/ c = Last(msgs').cmd]]_vars

C15_HeartbeatEchoed ==
    [][/\ (sup_pc = "heartbeat" /\ sup_pc' = "guard") => hb_i' = hb_o
       /\ hb_i' # hb_i => hb_i' = hb_o
       /\ published' # published => published'.heartbeatVal = hb_i]_vars

C15_Witness ==
    /\ published # NoMessage
    /\ published.heartbeatVal = MaxHeartbeat
    /\ hb_i = MaxHeartbeat
    /\ hb_o = MaxHeartbeat

\* C16: a pass with a frame that finds the start-stream flag set (and no stop
\* flag) leaves streaming_state "streaming" and the flag cleared, whether or
\* not the camera was streaming before; giving the command again while the
\* flag is still set changes nothing of the camera; a camera that streams
\* keeps streaming over a pass without a stop flag.
C16_StartStreamIdempotent ==
    [][/\ (nframes' # nframes /\ start_streaming_command /\ ~stop_streaming_command)
            => (streaming_state' = "streaming" /\ ~start_streaming_command')
       /\ (nintents' # nintents /\ start_streaming_command /\ IntentFlags' = IntentFlags)
            => UNCHANGED <<is_connected, cap, recording_state, streaming_state,
                           current_frame, rec_queue, rec_thread, rec_running,
                           stats, cam_pc, workers, files, clients>>
       /\ (nframes' # nframes /\ streaming_state = "streaming" /\ ~stop_streaming_command)
            => streaming_state' = "streaming"]_vars

\* connect, start_stream, a pass with the first frame, start_stream again
C16_Witness ==
    /\ nintents = 3
    /\ nframes = 1
    /\ is_connected
    /\ streaming_state = "streaming"
    /\ start_streaming_command
    /\ ~stop_streaming_command

\* C17: a pass that consumes the connect flag and ends Disconnected holds no
\* capture handle; the camera becomes Connected only in a pass that consumes
\* a connect flag; with no connect flag a Disconnected camera stays
\* Disconnected without a handle.
C17_FailedConnect ==
    [][/\ (connect_command /\ ~connect_command' /\ ~is_connected') => ~cap'
       /\ (~is_connected /\ is_connected') => (connect_command /\ ~connect_command')
       /\ (~is_connected /\ ~connect_command) => (~is_connected' /\ ~cap')]_vars

C17_Witness ==
    /\ IntentFlags = [c \in Intents |-> FALSE]
    /\ nintents = 1
    /\ nframes = 0
    /\ ~connect_command
    /\ ~is_connected
    /\ ~cap
    /\ cam_pc = "loop"

\* C18: while the video writer of the registered recording thread has failed
\* to open, recording_state is not "recording".
C18_FailedStartStaysStopped ==
    \A w \in WorkerIds :
        (rec_thread = w /\ workers[w].writer = "failed")
            => recording_state # "recording"

\* C19: a request is answered with the stream exactly when the camera is
\* Connected and streaming at that moment and with an error otherwise; a
\* frame is written only to a client whose stream was opened and whose loop
\* found the camera Connected and streaming; a refused client gets nothing.
C19_ServesOnlyWhenStreaming ==
    [][\A k \in ClientIds :
          /\ (clients[k].pc = "none" /\ clients'[k].pc # "none") =>
                clients'[k] = [pc |-> IF is_connected /\ streaming_state = "streaming"
                                      THEN "open" ELSE "refused",
                               sent |-> 0,
                               stale |-> FALSE]
          /\ clients'[k].sent # clients[k].sent => clients[k].pc = "sending"
          /\ (clients[k].pc # "sending" /\ clients'[k].pc = "sending") =>
                /\ clients[k].pc = "open"
                /\ is_connected
                /\ streaming_state = "streaming"
          /\ clients[k].pc = "refused" => clients'[k] = clients[k]]_vars

C19_Witness ==
    \E k, j \in ClientIds :
        /\ clients[k].pc = "refused"
        /\ clients[j].pc = "open"
        /\ clients[j].sent >= 1

\* C20: the step in which the write to a client fails ends the loop of that
\* client and leaves the camera's connection, streaming and recording state,
\* the frame buffer, the recording queue, the recording threads and every
\* other client as they were.
C20_ClientLossIsLocal ==
    [][\A k \in ClientIds :
          (clients[k].pc = "sending" /\ clients'[k].pc = "lost") =>
              /\ UNCHANGED <<is_connected, cap, streaming_state, recording_state,
                             current_frame, rec_queue, rec_thread, rec_running,
                             workers, files, stats>>
              /\ \A j \in ClientIds \ {k} : clients'[j] = clients[j]]_vars

C20_Witness ==
    \E k, j \in ClientIds :
        /\ clients[k].pc = "lost"
        /\ clients[j].pc = "open"
        /\ clients[j].sent >= 1
        /\ recording_state = "recording"
        /\ LoopContinues

\* C21: recording never holds up frame acquisition.  A pass that offers its
\* frame to the recording queue ends in the same step with the frame as the
\* current frame and the run loop back at the head of the loop, also when
\* the queue is full; a full queue is left as it is by the pass.
C21_EnqueueNeverWaits ==
    [][ (/\ cam_pc = "loop"
         /\ recording_state = "recording"
         /\ recording_state' = "recording"
         /\ nframes' = nframes + 1)
        => /\ cam_pc' = "loop"
           /\ current_frame' = nframes'
           /\ stats'.captured = stats.captured + 1
           /\ Len(rec_queue) >= REC_QUEUE_MAXSIZE => rec_queue' = rec_queue ]_vars

\* the queue is full, no worker has taken a frame from it, a frame was
\* refused and the run loop has the latest frame
C21_Witness ==
    /\ Len(rec_queue) = REC_QUEUE_MAXSIZE
    /\ stats.dropped_for_rec >= 1
    /\ \A w \in WorkerIds : files[w] = <<>> /\ workers[w].pc \in {"none", "open"}
    /\ Len(accepted) = REC_QUEUE_MAXSIZE
    /\ cam_pc = "loop"
    /\ current_frame = nframes

\* C22: when the run loop is cancelled the recording in flight is finalized:
\* after the cleanup the worker is not signalled to run and the recording
\* state is not "recording".
C22_ShutdownFinalizes ==
    cam_pc = "exited" => ~rec_running /\ recording_state # "recording"

\* C23: every intent flag is one-shot.  A step that makes the transition an
\* intent asks for (connected, streaming on, streaming off, recording
\* started, recording ended by a stop or a disconnect) finds the flag of that
\* intent set and leaves it cleared, so the same intent cannot be applied by
\* a later step.
C23_IntentOneShot ==
    [][ /\ (~is_connected /\ is_connected')
            => connect_command /\ ~connect_command'
        /\ (streaming_state # "streaming" /\ streaming_state' = "streaming")
            => start_streaming_command /\ ~start_streaming_command'
        /\ (streaming_state = "streaming" /\ streaming_state' # "streaming")
            => stop_streaming_command /\ ~stop_streaming_command'
        /\ (recording_state = "stopped" /\ recording_state' = "recording")
            => start_recording_command /\ ~start_recording_command'
        /\ (recording_state = "recording" /\ recording_state' = "saving")
            => \/ stop_recording_command /\ ~stop_recording_command'
               \/ disconnect_command /\ ~disconnect_command' ]_vars

\* three intents were issued and applied: connected, streaming, recording,
\* and no flag is left set
C23_Witness ==
    /\ nintents = 3
    /\ is_connected
    /\ streaming_state = "streaming"
    /\ recording_state = "recording"
    /\ IntentFlags = [c \in Intents |-> FALSE]

\* C24: streaming is active only while connected: streaming_state =
\* "streaming" implies is_connected.
C24_StreamingOnlyWhileConnected ==
    streaming_state = "streaming" => is_connected

\* C25: in Resetting with the bus down the supervisor keeps trying: a pass
\* through the state machine that finds the step Resetting, the bus down and
\* no connection attempt in flight starts an attempt, which either returns
\* with the connection pending or fails and is followed by the retry delay.
C25_ResettingKeepsConnecting ==
    [][ (/\ sup_pc = "match"
         /\ sup_pc' # "match"
         /\ stepNum = RESETTING
         /\ ~mqtt_is_connected
         /\ link = "none")
        => /\ CallsConnect(stepNum, mqtt_is_connected, is_connecting_to_mqtt)
           /\ sup_pc' = "connecting" \/ now' = AfterSleep(now) ]_vars

\* C26: a status snapshot that was published and parsed back is reproduced:
\* the parse succeeds, the parsed list has the length of the snapshot, and
\* the entry of every camera id has the same isConnected, recordingState,
\* isStreaming and videoDeviceNodeString as the entry of that id in the
\* snapshot.
C26_SnapshotRoundTrip ==
    parsed.done
    => /\ parsed.ok
       /\ Len(parsed.cameraStates) = Len(cameraStates)
       /\ \A i \in DOMAIN cameraStates :
            SameStatus(parsed.cameraStates[i], cameraStates[i])

\* the snapshot of two cameras was parsed back: the first camera recording,
\* with a member of the enumeration as its state and a device string of
\* characters JSON escapes, the second one different from the first
C26_Witness ==
    /\ parsed.done
    /\ Len(cameraStates) = 3
    /\ cameraStates[2].recordingState = [value |-> 1, member |-> TRUE]
    /\ cameraStates[2].videoDeviceNodeString = <<"\"", "\\">>
    /\ cameraStates[3].isConnected
    /\ cameraStates[3].videoDeviceNodeString = <<"/", "v">>
    /\ parsed.cameraStates[3].videoDeviceNodeString = <<"/", "v">>

\* C27 as the claim has it: a pass that begins with the step at Aborting
\* ends with it at Inactive, and a pass that begins at Inactive ends at
\* Resetting, whatever the bus and the heartbeat do.
C27_Original ==
    sup_pc = "publish"
    => /\ i_stepNum = ABORTING => stepNum = INACTIVE
       /\ i_stepNum = INACTIVE => stepNum = RESETTING

\* C27 (amended): a pass that begins at Aborting ends at Inactive and a pass
\* that begins at Inactive ends at Resetting, whatever the bus state, unless
\* the pass detects the first heartbeat change.  Then the step is set to
\* Running before the state machine runs: with the bus connected the pass
\* ends at Running, with the bus down Running is forced to Aborting and the
\* pass ends at Inactive.
C27_AbortingInactiveAdvance ==
    sup_pc = "publish"
    => /\ i_stepNum = ABORTING
          => \/ stepNum = INACTIVE
             \/ stepNum = RUNNING /\ step_by = "heartbeat" /\ step_from = ABORTING
       /\ i_stepNum = INACTIVE
          => \/ stepNum = RESETTING
             \/ stepNum = RUNNING /\ step_by = "heartbeat" /\ step_from = INACTIVE
             \/ /\ stepNum = INACTIVE
                /\ step_by = "match"
                /\ step_from = ABORTING
                /\ heartbeat_detected

\* a pass that began at Inactive has ended at Resetting with the bus
\* connected and the heartbeat already detected
C27_Witness ==
    /\ sup_pc = "publish"
    /\ i_stepNum = INACTIVE
    /\ stepNum = RESETTING
    /\ mqtt_is_connected
    /\ heartbeat_detected

\* C28: the worker drains the queue before it closes the writer: at the
\* step that releases a writer the recording queue is empty, and the worker
\* of that writer has terminated after the step.
C28_DrainsBeforeClose ==
    [][ \A w \in WorkerIds :
          (workers[w].writer = "open" /\ workers'[w].writer = "released")
          => /\ rec_queue = <<>>
             /\ workers'[w].pc = "dead" ]_vars

\* C29: a writer error on one frame does not stop the worker and is recorded
\* in the stats: the step in which writer.write fails leaves the worker at
\* the head of its loop and changes the stats.
C29_WriteErrorRecorded ==
    [][ nwerr' # nwerr
        => /\ \A w \in WorkerIds :
                workers[w].pc = "write" /\ workers'[w].pc # "write"
                => workers'[w].pc = "loop"
           /\ stats' # stats ]_vars

\* frames the run loop has offered to the recording queue, taken or refused
EnqueueAttempts == Len(accepted) + Cardinality(dropped)

\* C30: a pass that reads a frame with the state "recording" and no stop
\* command pending offers exactly that frame to the recording queue once; a
\* frame is offered only by such a pass, with the camera connected, and never
\* with the state "stopped" or "saving".
C30_OneAttemptPerRecordedFrame ==
    [][ /\ (/\ cam_pc = "loop"
            /\ nframes' = nframes + 1
            /\ recording_state = "recording"
            /\ ~stop_recording_command)
           => /\ EnqueueAttempts' = EnqueueAttempts + 1
              /\ \/ accepted' = Append(accepted, nframes')
                 \/ dropped' = dropped \cup {nframes'}
        /\ (accepted' # accepted \/ dropped' # dropped)
           => /\ recording_state = "recording"
              /\ ~stop_recording_command
              /\ nframes' = nframes + 1
              /\ is_connected' /\ cap'
              /\ EnqueueAttempts' = EnqueueAttempts + 1 ]_vars

\* four frames were read: the pass that started the recording, two passes
\* that offered their frame, and the pass that took the stop command
C30_Witness ==
    /\ recording_state = "saving"
    /\ nframes = 4
    /\ accepted = <<2, 3>>
    /\ dropped = {}

\* C31: the last-frame buffer has one writer.  Only a pass of the run loop
\* that has read a frame changes it, and such a pass leaves the frame it has
\* read in it; no step of a streaming client or of a recording thread
\* changes it.
C31_BufferHasOneWriter ==
    [][ /\ current_frame' # current_frame
           => /\ cam_pc = "loop"
              /\ nframes' = nframes + 1
              /\ stats'.captured = stats.captured + 1
        /\ nframes' = nframes + 1 => current_frame' = nframes'
        /\ (clients' # clients \/ workers' # workers \/ files' # files)
           => current_frame' = current_frame \/ nframes' = nframes + 1 ]_vars

\* the second frame is in the buffer after a client was sent a frame and a
\* recording thread has written one
C31_Witness ==
    /\ current_frame = 2
    /\ \E k \in ClientIds : clients[k].sent >= 1
    /\ \E w \in WorkerIds : files[w] # <<>>

\* C32: an intent set while it applies is applied by a later pass of the
\* run loop.  A start_stream command pending on a Connected camera leads to
\* the streaming state, unless a read fails or a stop_stream command comes
\* in first; a stop_record command pending while the state is "recording"
\* leads to the state "saving".
C32_IntentEventuallyApplied ==
    /\ (start_streaming_command /\ ~stop_streaming_command /\ is_connected)
         ~> (streaming_state = "streaming" \/ ~is_connected \/ stop_streaming_command)
    /\ (stop_recording_command /\ recording_state = "recording")
         ~> (recording_state = "saving")

C34_Original ==
    [][\A k \in ClientIds :
          (clients[k].pc = "open" /\ clients'[k].pc = "sending")
              => ~clients[k].stale]_vars

\* C34 as amended: the loop looks at the streaming state and the connection
\* before every pass.  A pass begins only when the camera is streaming and
\* Connected at that moment; a loop that finds otherwise ends the response
\* and writes nothing more; a frame is written only by a pass that has
\* begun, one frame per pass; a response that has ended stays ended.
C34_LoopStopsAtNextCheck ==
    [][\A k \in ClientIds :
          /\ (clients[k].pc = "open" /\ clients'[k].pc = "sending")
                => streaming_state = "streaming" /\ is_connected
          /\ (/\ clients[k].pc = "open"
              /\ ~(streaming_state = "streaming" /\ is_connected)
              /\ clients'[k] # clients[k])
                => clients'[k] = [clients[k] EXCEPT !.pc = "ended", !.stale = FALSE]
          /\ clients'[k].sent # clients[k].sent
                => /\ clients[k].pc = "sending"
                   /\ clients'[k].sent = clients[k].sent + 1
                   /\ clients'[k].pc = "open"
          /\ clients[k].pc = "ended" => clients'[k] = clients[k]]_vars

\* streaming was switched off or the camera lost while a client was inside
\* a pass, and another client's loop has ended for that reason
C34_Witness ==
    \E k, j \in ClientIds :
        /\ clients[k].pc = "sending"
        /\ clients[k].stale
        /\ ~(streaming_state = "streaming" /\ is_connected)
        /\ clients[j].pc = "ended"
        /\ clients[j].sent >= 1

\* C35: a pass of the supervisor that ends with the step Idle or Running has
\* read the bus flag as connected: the guard lets such a step through only
\* with the flag set, the match statement moves to Idle only with the flag
\* set, and nothing else in the pass, and no callback, writes the step.
C35_IdleRunningSawBusConnected ==
    [][ /\ (sup_pc = "guard" /\ sup_pc' = "match" /\ stepNum' \in {IDLE, RUNNING})
           => mqtt_is_connected /\ stepNum' = stepNum
        /\ (sup_pc = "match" /\ sup_pc' # "match" /\ stepNum' \in {IDLE, RUNNING})
           => stepNum' = stepNum \/ mqtt_is_connected
        /\ (sup_pc \in {"connecting", "publish"} \/ sup_pc' = sup_pc)
           => stepNum' = stepNum ]_vars

\* a pass is about to end in Idle although the bus has been lost since the
\* guard read the flag
C35_Witness ==
    /\ sup_pc = "publish"
    /\ stepNum = IDLE
    /\ ~mqtt_is_connected
    /\ step_by = "match"

\* C36: no frame of an earlier recording session is written into the file
\* of a later one: every frame in the file of the worker of the latest
\* session is one of the frames the queue has taken during that session.
C36_NoFrameFromEarlierSession ==
    session.worker # 0
    => LET taken == session.offered - session.refused
       IN  Range(files[session.worker])
             \subseteq {accepted[i] : i \in (Len(accepted) - taken + 1)..Len(accepted)}

\* C37: a stop-record flag set while the recording state is "stopped" stays
\* set as long as the state is "stopped", and while a recording has the stop
\* flag pending no frame is offered to the queue: the flag stays set until a
\* step moves the recording to "saving", and the pass that reads the next
\* frame does so and consumes the flag.
C37_PendingStopEndsNextRecording ==
    [][ /\ (stop_recording_command /\ recording_state = "stopped")
           => stop_recording_command'
        /\ (stop_recording_command /\ recording_state = "recording")
           => /\ accepted' = accepted
              /\ dropped' = dropped
              /\ rec_queue' = rec_queue \/ Len(rec_queue') < Len(rec_queue)
              /\ \/ recording_state' = "recording" /\ stop_recording_command'
                 \/ recording_state' = "saving"
        /\ (/\ stop_recording_command
            /\ recording_state = "recording"
            /\ nframes' = nframes + 1)
           => recording_state' = "saving" /\ ~stop_recording_command' ]_vars

\* a stop flag set before the recording was started has ended it on its
\* first pass: the recording is in "saving", its session has offered no frame
C37_Witness ==
    /\ recording_state = "saving"
    /\ ~stop_recording_command
    /\ session.worker # 0
    /\ session.offered = 0
    /\ nframes = 2
    /\ accepted = <<>>
    /\ is_connected

\* C38: connection flags that are not applicable stay pending.  A connect
\* flag set while the camera is connected stays set, and is consumed only by
\* a step that begins disconnected; while a disconnect flag is pending on a
\* disconnected camera no step leaves the camera connected or reads a frame,
\* and the flag is consumed only by the step that consumes a connect flag.
C38_PendingConnectionIntents ==
    [][ /\ (connect_command /\ is_connected) => connect_command'
        /\ (connect_command /\ ~connect_command') => ~is_connected
        /\ (disconnect_command /\ ~is_connected)
           => /\ ~is_connected'
              /\ ~cap'
              /\ nframes' = nframes
              /\ \/ disconnect_command'
                 \/ connect_command /\ ~connect_command' ]_vars

\* a connect and a disconnect flag were consumed by one pass that read no
\* frame and left the camera disconnected
C38_Witness ==
    /\ nintents = 2
    /\ nframes = 0
    /\ IntentFlags = [c \in Intents |-> FALSE]
    /\ ~is_connected
    /\ ~cap
    /\ stats.captured = 0

\* C39: the supervisor is never in Resetting with the bus down and the
\* attempt-in-flight flag set unless a connection attempt is pending, that
\* is, a CONNECT has been sent and neither _on_connect nor _on_disconnect
\* has answered it.
C39_FlagOnlyWhileAttemptPending ==
    (stepNum = RESETTING /\ ~mqtt_is_connected /\ is_connecting_to_mqtt)
    => link = "tcp"

\* C40: a camera that is not connected holds no capture handle.
C40_DisconnectedHoldsNoHandle ==
    ~is_connected => ~cap

\* the run loop has exited after frames were read: the capture is closed
C40_Witness ==
    /\ cam_pc = "exited"
    /\ nframes >= 2
    /\ ~is_connected
    /\ ~cap
    /\ recording_state = "stopped"

====
